---- MODULE Spec2Model ----
(***************************************************************************)
(* GrafoDisperso: a directed graph stored in CSR form (row_ptr,            *)
(* column_indices, values), loaded from an edge-list file by cargarDatos   *)
(* and queried through the public methods of GrafoBase.                    *)
(*                                                                         *)
(* The model is of the class as its callers may use it: any public method  *)
(* may be called, in any order, with any argument.  Arrays keep the        *)
(* 0-based indices of the source: an int[n] is a function on 0..n-1.       *)
(***************************************************************************)
EXTENDS Integers, Sequences, FiniteSets, TLC

\* ------------------------------------------------------------------ bounds
\* Largest node id a file of the model mentions.
MaxId == 2
\* Longest file of the model, in pairs (two tokens each).
MaxPares == 2
\* Largest depth limit passed to BFS.
MaxProf == 1

\* Ids a token of a file may hold: the documented ids 0..MaxId, and -1,
\* which operator>> parses as an int as well.
Ids == -1..MaxId
\* A token of the stream: <<n>> is text that parses as the int n, <<>> is
\* text that does not parse as an int.
Tokens == {<<n>> : n \in Ids} \cup {<<>>}
\* Node arguments the callers pass: every id of the model, one below and
\* one above.
Consultas == -1..(MaxId + 1)
\* Depth limits the callers pass: -1 (no limit), 0..MaxProf, and -2.
Profundidades == -2..MaxProf
\* What an uninitialized int of a new int[n] may hold.
Basura == {-1, 0}

RECURSIVE SeqsHasta(_, _)
\* All sequences over S of length at most n.
SeqsHasta(S, n) ==
    IF n = 0 THEN {<<>>}
    ELSE LET menores == SeqsHasta(S, n - 1)
         IN  menores \cup {Append(s, x) : s \in {t \in menores : Len(t) = n - 1}, x \in S}

\* The contents a file of the model may have: at most 2 * MaxPares tokens,
\* at most one of which is not an int (the loader reads nothing after the
\* first such token, so a second one changes nothing).
Archivos ==
    {a \in SeqsHasta(Tokens, 2 * MaxPares) :
        Cardinality({k \in DOMAIN a : a[k] = <<>>}) <= 1}
\* A path no file is at.
NoExiste == <<<<>>, <<>>, <<>>, <<>>, <<>>, <<>>, <<>>, <<>>, <<>>, <<>>>>
\* The scenario of the specification's section 8: edges (0,1),(0,2),(1,2),(2,0).
ArchivoEjemplo == << <<0>>, <<1>>, <<0>>, <<2>>, <<1>>, <<2>>, <<2>>, <<0>> >>
\* A second data set, of four nodes, with a cycle and a self-loop, in which
\* the depth-first and the breadth-first orders differ:
\* edges (0,1),(0,2),(1,3),(3,0),(2,2).
ArchivoCiclo == << <<0>>, <<1>>, <<0>>, <<2>>, <<1>>, <<3>>, <<3>>, <<0>>, <<2>>, <<2>> >>
\* The paths a caller may name.
Rutas == {"dataset", "ejemplo"}

\* The file systems of the model: the data set the caller names is any file
\* of the model and there is no other file; or it is missing, empty or the
\* four-node data set, and the scenario of the specification is at hand too.
Discos ==
    {[r \in Rutas |-> IF r = "dataset" THEN d ELSE NoExiste] : d \in Archivos}
    \cup {[r \in Rutas |-> IF r = "dataset" THEN d ELSE ArchivoEjemplo] :
              d \in {NoExiste, <<>>, ArchivoCiclo}}

\* ----------------------------------------------------------------- parsing
EsEntero(t) == Len(t) = 1

RECURSIVE LeerPares_salta(_, _)
\* LeerPares with a reader that skips a pair it cannot parse and reads on.
LeerPares_salta(toks, i) ==
    IF i + 1 > Len(toks) THEN <<>>
    ELSE IF EsEntero(toks[i]) /\ EsEntero(toks[i + 1])
    THEN <<[origen |-> toks[i][1], destino |-> toks[i + 1][1]]>>
         \o LeerPares_salta(toks, i + 2)
    ELSE LeerPares_salta(toks, i + 2)

RECURSIVE LeerPares(_, _)
\* while (archivo >> origen >> destino): the pairs read from token i on; the
\* loop ends at end of stream or at the first token that is not an int.
LeerPares(toks, i) ==
    IF i + 1 <= Len(toks) /\ EsEntero(toks[i]) /\ EsEntero(toks[i + 1])
    THEN <<[origen |-> toks[i][1], destino |-> toks[i + 1][1]]>>
         \o LeerPares(toks, i + 2)
    ELSE <<>>

RECURSIVE PrimeraPasadaMax_soloOrigen(_, _, _)
\* PrimeraPasadaMax without the test of destino against nodoMaximo.
PrimeraPasadaMax_soloOrigen(pares, k, m) ==
    IF k > Len(pares) THEN m
    ELSE PrimeraPasadaMax_soloOrigen(pares, k + 1,
             IF pares[k].origen > m THEN pares[k].origen ELSE m)

RECURSIVE PrimeraPasadaMax(_, _, _)
\* The first pass's nodoMaximo after pairs k..Len(pares), from nodoMaximo = m.
PrimeraPasadaMax(pares, k, m) ==
    IF k > Len(pares) THEN m
    ELSE LET m1 == IF pares[k].origen > m THEN pares[k].origen ELSE m
             m2 == IF pares[k].destino > m1 THEN pares[k].destino ELSE m1
         IN  PrimeraPasadaMax(pares, k + 1, m2)

\* The first pass: nodoMaximo starts at -1, contadorAristas counts the pairs.
PrimeraPasada(pares) ==
    [numNodos |-> PrimeraPasadaMax(pares, 1, -1) + 1, numAristas |-> Len(pares)]

RECURSIVE SegundaPasada_alFrente(_, _, _)
\* SegundaPasada with each destino put at the front of its list.
SegundaPasada_alFrente(pares, k, st) ==
    IF k > Len(pares) THEN st
    ELSE LET o == pares[k].origen
         IN  IF o \in DOMAIN st.lista
             THEN SegundaPasada_alFrente(pares, k + 1,
                      [st EXCEPT !.lista[o] = <<pares[k].destino>> \o @])
             ELSE SegundaPasada_alFrente(pares, k + 1, [st EXCEPT !.indef = TRUE])

RECURSIVE SegundaPasada(_, _, _)
\* The second pass: each pair's destino is appended to listaAdyacencia[origen]
\* (the growth of a full list copies its elements in order).  An origen
\* outside 0..numNodos-1 indexes contadores out of bounds: the pair is then
\* left out of the lists and the pass is marked undefined.
SegundaPasada(pares, k, st) ==
    IF k > Len(pares) THEN st
    ELSE LET o == pares[k].origen
         IN  IF o \in DOMAIN st.lista
             THEN SegundaPasada(pares, k + 1,
                      [st EXCEPT !.lista[o] = Append(@, pares[k].destino)])
             ELSE SegundaPasada(pares, k + 1, [st EXCEPT !.indef = TRUE])

\* listaAdyacencia and contadores after the second pass.
ListaAdyacencia(pares, n) ==
    SegundaPasada(pares, 1, [lista |-> [i \in 0..(n - 1) |-> <<>>], indef |-> FALSE])

RECURSIVE Aplanar_inverso(_, _, _)
\* Aplanar with the outer loop running from the last node down to the first.
Aplanar_inverso(lista, i, n) ==
    IF i >= n THEN <<>> ELSE Aplanar_inverso(lista, i + 1, n) \o lista[i]

RECURSIVE Aplanar(_, _, _)
\* The order in which construirCSR's nested loops visit listaAdyacencia[i][j].
Aplanar(lista, i, n) ==
    IF i >= n THEN <<>> ELSE lista[i] \o Aplanar(lista, i + 1, n)

\* construirCSR with row_ptr[i + 1] = contadores[i], the sum forgotten.
construirCSR_sinSuma(lista, n, m, g) ==
    LET plano == Aplanar(lista, 0, n)
    IN  [row_ptr |-> [i \in 0..n |-> IF i = 0 THEN 0 ELSE Len(lista[i - 1])],
         column_indices |-> [k \in 0..(m - 1) |-> IF k < Len(plano) THEN plano[k + 1] ELSE g],
         values |-> [k \in 0..(m - 1) |-> IF k < Len(plano) THEN 1 ELSE g]]

\* construirCSR: row_ptr is the prefix sum of contadores; values and
\* column_indices are filled in the order of the nested loops; a slot the
\* loops do not reach keeps what new int[] left there (g).
construirCSR(lista, n, m, g) ==
    LET rp[i \in 0..n] == IF i = 0 THEN 0 ELSE rp[i - 1] + Len(lista[i - 1])
        plano == Aplanar(lista, 0, n)
    IN  [row_ptr |-> rp,
         column_indices |-> [k \in 0..(m - 1) |-> IF k < Len(plano) THEN plano[k + 1] ELSE g],
         values |-> [k \in 0..(m - 1) |-> IF k < Len(plano) THEN 1 ELSE g]]

\* ------------------------------------------------------------------- state
VARIABLES
    disco,           \* the file at each path (NoExiste: none)
    pc,              \* "creado" | "cargado" | "abortado" (the process died)
    ruta,            \* the path of the last load that built the arrays
    indefinido,      \* the last load ran into undefined behaviour
    numNodos, numAristas,
    row_ptr, column_indices, values,
    ultima,          \* the call whose result the caller holds, if any
    enCurso          \* the traversal that is running, its locals and its stack

vars == <<disco, pc, ruta, indefinido, numNodos, numAristas,
          row_ptr, column_indices, values, ultima, enCurso>>

csr == <<numNodos, numAristas, row_ptr, column_indices, values>>

Llamada(op, nodo, prof, ret, lista, ok) ==
    [op |-> op, nodo |-> nodo, prof |-> prof, ret |-> ret, lista |-> lista, ok |-> ok]

\* The caller holds no result: it is between two calls.
Ninguna == Llamada("ninguna", 0, 0, 0, <<>>, TRUE)
\* No traversal is running.
SinRecorrido == [op |-> "ninguna", nodo |-> 0, prof |-> 0, e |-> <<>>, pila |-> <<>>]
EnReposo == ultima = Ninguna /\ enCurso = SinRecorrido

\* GrafoBase() and GrafoDisperso(): no nodes, no edges, null arrays.  The
\* file system is one of Discos.
Init ==
    /\ disco \in Discos
    /\ pc = "creado"
    /\ ruta = "ninguna"
    /\ indefinido = FALSE
    /\ numNodos = 0
    /\ numAristas = 0
    /\ row_ptr = <<>>
    /\ column_indices = <<>>
    /\ values = <<>>
    /\ ultima = Ninguna
    /\ enCurso = SinRecorrido

\* cargarDatos(nombreArchivo).  A file that cannot be opened: false, nothing
\* changes.  Otherwise two passes and construirCSR.  A pair with a negative
\* origen makes the second pass index contadores[origen] out of bounds:
\* either the process dies, or the accesses land outside the program's
\* arrays and the pair is lost.
cargarDatos(r) ==
    /\ pc # "abortado"
    /\ EnReposo
    /\ IF disco[r] = NoExiste
       THEN /\ ultima' = Llamada("cargarDatos", 0, 0, 0, <<>>, FALSE)
            /\ UNCHANGED <<disco, pc, ruta, indefinido, csr, enCurso>>
       ELSE LET pares == LeerPares(disco[r], 1)
                p1 == PrimeraPasada(pares)
                p2 == ListaAdyacencia(pares, p1.numNodos)
            IN  \E g \in Basura, muere \in BOOLEAN :
                   /\ (~p2.indef) => (g = 0 /\ ~muere)
                   /\ IF muere
                      THEN /\ pc' = "abortado"
                           /\ numNodos' = p1.numNodos
                           /\ numAristas' = p1.numAristas
                           /\ ultima' = Llamada("cargarDatos", 0, 0, 0, <<>>, FALSE)
                           /\ UNCHANGED <<disco, ruta, indefinido,
                                          row_ptr, column_indices, values, enCurso>>
                      ELSE LET c == construirCSR(p2.lista, p1.numNodos, p1.numAristas, g)
                           IN  /\ pc' = "cargado"
                               /\ ruta' = r
                               /\ indefinido' = p2.indef
                               /\ numNodos' = p1.numNodos
                               /\ numAristas' = p1.numAristas
                               /\ row_ptr' = c.row_ptr
                               /\ column_indices' = c.column_indices
                               /\ values' = c.values
                               /\ ultima' = Llamada("cargarDatos", 0, 0, 0, <<>>, TRUE)
                               /\ UNCHANGED <<disco, enCurso>>

\* ------------------------------------------------------------- traversals
\* 0 <= nodo < numNodos, the guard every query starts with.
NodoValido(nodo) == nodo >= 0 /\ nodo < numNodos

RECURSIVE BFSVecinos_reves(_, _, _, _)
\* BFSVecinos with the for loop running from the last out-edge to the first.
BFSVecinos_reves(e, d, i, fin) ==
    IF i >= fin THEN e
    ELSE LET vecino == column_indices[fin - 1]
         IN  IF ~NodoValido(vecino)
             THEN BFSVecinos_reves([e EXCEPT !.indef = TRUE], d, i, fin - 1)
             ELSE IF vecino \notin e.marcados
             THEN BFSVecinos_reves([e EXCEPT !.marcados = @ \cup {vecino},
                                             !.distancias[vecino] = d + 1,
                                             !.cola = Append(@, vecino),
                                             !.resultado = Append(@, vecino)],
                                   d, i, fin - 1)
             ELSE BFSVecinos_reves(e, d, i, fin - 1)

RECURSIVE BFSVecinos(_, _, _, _)
\* The for loop of BFS over column_indices[i..fin-1], d = distanciaActual.
\* A vecino outside 0..numNodos-1 reads marcados out of bounds: the
\* traversal is marked undefined and goes on as if the read gave true.
BFSVecinos(e, d, i, fin) ==
    IF i >= fin THEN e
    ELSE LET vecino == column_indices[i]
         IN  IF ~NodoValido(vecino)
             THEN BFSVecinos([e EXCEPT !.indef = TRUE], d, i + 1, fin)
             ELSE IF vecino \notin e.marcados
             THEN BFSVecinos([e EXCEPT !.marcados = @ \cup {vecino},
                                       !.distancias[vecino] = d + 1,
                                       !.cola = Append(@, vecino),
                                       !.resultado = Append(@, vecino)],
                             d, i + 1, fin)
             ELSE BFSVecinos(e, d, i + 1, fin)

\* BFSPaso with > where the depth test has >=.
BFSPaso_mayor(e, profundidadMax) ==
    LET nodoActual == e.cola[e.frente + 1]
        distanciaActual == e.distancias[nodoActual]
        e1 == [e EXCEPT !.frente = @ + 1]
    IN  IF profundidadMax # -1 /\ distanciaActual > profundidadMax
        THEN e1
        ELSE BFSVecinos(e1, distanciaActual, row_ptr[nodoActual], row_ptr[nodoActual + 1])

\* One iteration of while (frente < final): dequeue nodoActual, and expand
\* it unless the depth limit stops it.  final is Len(cola), contador is
\* Len(resultado).
BFSPaso(e, profundidadMax) ==
    LET nodoActual == e.cola[e.frente + 1]
        distanciaActual == e.distancias[nodoActual]
        e1 == [e EXCEPT !.frente = @ + 1]
    IN  IF profundidadMax # -1 /\ distanciaActual >= profundidadMax
        THEN e1
        ELSE BFSVecinos(e1, distanciaActual, row_ptr[nodoActual], row_ptr[nodoActual + 1])

RECURSIVE BFSBucle(_, _)
BFSBucle(e, profundidadMax) ==
    IF e.frente < Len(e.cola) THEN BFSBucle(BFSPaso(e, profundidadMax), profundidadMax) ELSE e

\* The locals of BFS once nodoInicio is enqueued, marked and recorded.
BFSInicio(nodoInicio) ==
    [cola |-> <<nodoInicio>>, frente |-> 0,
     marcados |-> {nodoInicio},
     distancias |-> [i \in 0..(numNodos - 1) |-> IF i = nodoInicio THEN 0 ELSE -1],
     resultado |-> <<nodoInicio>>, indef |-> FALSE]

\* BFS(nodoInicio, profundidadMax) for a valid nodoInicio: the locals when
\* the loop ends.
RecorridoBFS(nodoInicio, profundidadMax) == BFSBucle(BFSInicio(nodoInicio), profundidadMax)

RECURSIVE DFSRecursivo(_, _), DFSVecinos(_, _, _)
\* DFSRecursivo recording nodoActual after the loop over its out-edges.
DFSRecursivo_despues(nodoActual, st) ==
    LET s1 == DFSVecinos([st EXCEPT !.visitados = @ \cup {nodoActual}],
                         row_ptr[nodoActual], row_ptr[nodoActual + 1])
    IN  [s1 EXCEPT !.resultado = Append(@, nodoActual)]

\* DFSRecursivo: mark, record, then the for loop over the out-edges.
DFSRecursivo(nodoActual, st) ==
    DFSVecinos([st EXCEPT !.visitados = @ \cup {nodoActual},
                          !.resultado = Append(@, nodoActual)],
               row_ptr[nodoActual], row_ptr[nodoActual + 1])

\* DFSVecinos leaving the loop after the first out-edge.
DFSVecinos_primero(st, i, fin) ==
    IF i >= fin THEN st
    ELSE LET vecino == column_indices[i]
         IN  IF ~NodoValido(vecino) THEN [st EXCEPT !.indef = TRUE]
             ELSE IF vecino \notin st.visitados THEN DFSRecursivo(vecino, st)
             ELSE st

\* The for loop of DFSRecursivo over column_indices[i..fin-1]; the call on an
\* unvisited vecino returns before the next edge is examined.  A vecino
\* outside 0..numNodos-1 reads visitados out of bounds, as in BFS.
DFSVecinos(st, i, fin) ==
    IF i >= fin THEN st
    ELSE LET vecino == column_indices[i]
         IN  IF ~NodoValido(vecino)
             THEN DFSVecinos([st EXCEPT !.indef = TRUE], i + 1, fin)
             ELSE IF vecino \notin st.visitados
             THEN DFSVecinos(DFSRecursivo(vecino, st), i + 1, fin)
             ELSE DFSVecinos(st, i + 1, fin)

\* DFS(nodoInicio) for a valid nodoInicio.
RecorridoDFS(nodoInicio) ==
    DFSRecursivo(nodoInicio, [visitados |-> {}, resultado |-> <<>>, indef |-> FALSE])

\* ----------------------------------------------------------------- queries
\* row_ptr[nodo + 1] - row_ptr[nodo], or 0 for a nodo out of range.
GradoSalida(nodo) ==
    IF ~NodoValido(nodo) THEN 0 ELSE row_ptr[nodo + 1] - row_ptr[nodo]

\* GradoEntrada without the test of nodo against 0 and numNodos.
GradoEntrada_sinGuarda(nodo) ==
    Cardinality({i \in 0..(numAristas - 1) : column_indices[i] = nodo})

\* GradoEntrada with the scan starting at index 1.
GradoEntrada_desdeUno(nodo) ==
    IF ~NodoValido(nodo) THEN 0
    ELSE Cardinality({i \in 1..(numAristas - 1) : column_indices[i] = nodo})

\* The occurrences of nodo in column_indices[0..numAristas-1], or 0 for a
\* nodo out of range.
GradoEntrada(nodo) ==
    IF ~NodoValido(nodo) THEN 0
    ELSE Cardinality({i \in 0..(numAristas - 1) : column_indices[i] = nodo})

\* The copy getVecinos makes of column_indices[row_ptr[nodo]..row_ptr[nodo+1]-1].
Vecinos(nodo) ==
    IF ~NodoValido(nodo) THEN <<>>
    ELSE [i \in 1..(row_ptr[nodo + 1] - row_ptr[nodo]) |->
             column_indices[row_ptr[nodo] + i - 1]]

RECURSIVE MayorGrado_igual(_, _)
\* MayorGrado with >= where the scan has >: the last maximum wins.
MayorGrado_igual(i, m) ==
    IF i >= numNodos THEN m
    ELSE IF GradoSalida(i) >= m.gradoMaximo
         THEN MayorGrado_igual(i + 1, [nodoMaximo |-> i, gradoMaximo |-> GradoSalida(i)])
         ELSE MayorGrado_igual(i + 1, m)

RECURSIVE MayorGrado(_, _)
\* The scan of obtenerNodoMayorGrado from node i on: only a strictly greater
\* degree replaces the maximum.
MayorGrado(i, m) ==
    IF i >= numNodos THEN m
    ELSE IF GradoSalida(i) > m.gradoMaximo
         THEN MayorGrado(i + 1, [nodoMaximo |-> i, gradoMaximo |-> GradoSalida(i)])
         ELSE MayorGrado(i + 1, m)

\* obtenerNodoMayorGrado: nodoMaximo starts at -1 and gradoMaximo at 0.
NodoMayorGrado == MayorGrado(0, [nodoMaximo |-> -1, gradoMaximo |-> 0])

\* A traversal that returned r.  One that read out of bounds either kills
\* the process or returns what it had.
Devuelve(op, nodo, prof, r) ==
    \E muere \in BOOLEAN :
       /\ (~r.indef) => ~muere
       /\ IF muere
          THEN /\ pc' = "abortado"
               /\ ultima' = Llamada(op, nodo, prof, 0, <<>>, FALSE)
          ELSE /\ pc' = pc
               /\ ultima' = Llamada(op, nodo, prof, Len(r.resultado), r.resultado, ~r.indef)
       /\ UNCHANGED <<disco, ruta, indefinido, csr>>

\* A call that returned ret and lista and touched nothing else.
Consulta(op, nodo, prof, ret, lista) ==
    /\ ultima' = Llamada(op, nodo, prof, ret, lista, TRUE)
    /\ UNCHANGED <<disco, pc, ruta, indefinido, csr, enCurso>>

\* BFS(nodoInicio, profundidadMax, visitados, cantidadVisitados).
BFS(nodoInicio, profundidadMax) ==
    /\ pc # "abortado"
    /\ EnReposo
    /\ IF ~NodoValido(nodoInicio)
       THEN Consulta("BFS", nodoInicio, profundidadMax, 0, <<>>)
       ELSE /\ Devuelve("BFS", nodoInicio, profundidadMax,
                        RecorridoBFS(nodoInicio, profundidadMax))
            /\ UNCHANGED enCurso

\* DFS(nodoInicio, visitados, cantidadVisitados).
DFS(nodoInicio) ==
    /\ pc # "abortado"
    /\ EnReposo
    /\ IF ~NodoValido(nodoInicio)
       THEN Consulta("DFS", nodoInicio, 0, 0, <<>>)
       ELSE /\ Devuelve("DFS", nodoInicio, 0, RecorridoDFS(nodoInicio))
            /\ UNCHANGED enCurso

obtenerGradoSalida(nodo) ==
    /\ pc # "abortado"
    /\ EnReposo
    /\ Consulta("obtenerGradoSalida", nodo, 0, GradoSalida(nodo), <<>>)

obtenerGradoEntrada(nodo) ==
    /\ pc # "abortado"
    /\ EnReposo
    /\ Consulta("obtenerGradoEntrada", nodo, 0, GradoEntrada(nodo), <<>>)

\* getVecinos(nodo, vecinos, cantidadVecinos): vecinos is written only when
\* cantidadVecinos > 0.
getVecinos(nodo) ==
    /\ pc # "abortado"
    /\ EnReposo
    /\ Consulta("getVecinos", nodo, 0, Len(Vecinos(nodo)), Vecinos(nodo))

\* obtenerNodoMayorGrado(gradoMaximo): returns nodoMaximo.
obtenerNodoMayorGrado ==
    /\ pc # "abortado"
    /\ EnReposo
    /\ Consulta("obtenerNodoMayorGrado", NodoMayorGrado.nodoMaximo, 0,
                NodoMayorGrado.gradoMaximo, <<>>)

\* The caller is done with the result (it prints it and releases the array
\* it was handed) and is ready for its next call.
liberar ==
    /\ pc # "abortado"
    /\ ultima # Ninguna
    /\ ultima' = Ninguna
    /\ UNCHANGED <<disco, pc, ruta, indefinido, csr, enCurso>>

Next ==
    \/ \E r \in Rutas : cargarDatos(r)
    \/ \E n \in Consultas, p \in Profundidades : BFS(n, p)
    \/ \E n \in Consultas : DFS(n)
    \/ \E n \in Consultas : obtenerGradoSalida(n)
    \/ \E n \in Consultas : obtenerGradoEntrada(n)
    \/ \E n \in Consultas : getVecinos(n)
    \/ obtenerNodoMayorGrado
    \/ liberar

Spec == Init /\ [][Next]_vars

\* ------------------------------------------------ traversals, step by step
\* The same program with BFS and DFS run one iteration at a time: enCurso
\* holds the locals of the running call, and for DFS the frames of
\* DFSRecursivo that have not returned, the innermost last.

\* BFS up to its while loop.
IniciarBFS(nodoInicio, profundidadMax) ==
    /\ pc # "abortado"
    /\ EnReposo
    /\ IF ~NodoValido(nodoInicio)
       THEN Consulta("BFS", nodoInicio, profundidadMax, 0, <<>>)
       ELSE /\ enCurso' = [op |-> "BFS", nodo |-> nodoInicio, prof |-> profundidadMax,
                           e |-> BFSInicio(nodoInicio), pila |-> <<>>]
            /\ UNCHANGED <<disco, pc, ruta, indefinido, csr, ultima>>

\* One iteration of while (frente < final).
PasoBFS ==
    /\ pc # "abortado"
    /\ enCurso.op = "BFS"
    /\ enCurso.e.frente < Len(enCurso.e.cola)
    /\ enCurso' = [enCurso EXCEPT !.e = BFSPaso(@, enCurso.prof)]
    /\ UNCHANGED <<disco, pc, ruta, indefinido, csr, ultima>>

\* frente = final: the result is copied and handed to the caller.
TerminarBFS ==
    /\ pc # "abortado"
    /\ enCurso.op = "BFS"
    /\ enCurso.e.frente >= Len(enCurso.e.cola)
    /\ Devuelve("BFS", enCurso.nodo, enCurso.prof, enCurso.e)
    /\ enCurso' = SinRecorrido

\* DFSRecursivo entered without marking nodoActual as visited.
DFSEntrar_sinMarca(t, nodoActual) ==
    [t EXCEPT !.e.resultado = Append(@, nodoActual),
              !.pila = Append(@, [nodoActual |-> nodoActual, i |-> row_ptr[nodoActual]])]

\* A call of DFSRecursivo(nodoActual) up to its for loop: mark, record, and
\* a new frame with i = inicioVecinos.
DFSEntrar(t, nodoActual) ==
    [t EXCEPT !.e.visitados = @ \cup {nodoActual},
              !.e.resultado = Append(@, nodoActual),
              !.pila = Append(@, [nodoActual |-> nodoActual, i |-> row_ptr[nodoActual]])]

\* One step of the innermost call: its for loop is over and it returns, or
\* it examines column_indices[i], moves to the next edge and calls
\* DFSRecursivo on a vecino not yet visited.
DFSPaso(t) ==
    LET k == Len(t.pila)
        f == t.pila[k]
    IN  IF f.i >= row_ptr[f.nodoActual + 1]
        THEN [t EXCEPT !.pila = SubSeq(@, 1, k - 1)]
        ELSE LET vecino == column_indices[f.i]
                 t1 == [t EXCEPT !.pila[k].i = @ + 1]
             IN  IF ~NodoValido(vecino) THEN [t1 EXCEPT !.e.indef = TRUE]
                 ELSE IF vecino \notin t1.e.visitados THEN DFSEntrar(t1, vecino)
                 ELSE t1

\* DFS up to the first call of DFSRecursivo.
IniciarDFS(nodoInicio) ==
    /\ pc # "abortado"
    /\ EnReposo
    /\ IF ~NodoValido(nodoInicio)
       THEN Consulta("DFS", nodoInicio, 0, 0, <<>>)
       ELSE /\ enCurso' = DFSEntrar([op |-> "DFS", nodo |-> nodoInicio, prof |-> 0,
                                     e |-> [visitados |-> {}, resultado |-> <<>>,
                                            indef |-> FALSE],
                                     pila |-> <<>>],
                                    nodoInicio)
            /\ UNCHANGED <<disco, pc, ruta, indefinido, csr, ultima>>

PasoDFS ==
    /\ pc # "abortado"
    /\ enCurso.op = "DFS"
    /\ enCurso.pila # <<>>
    /\ enCurso' = DFSPaso(enCurso)
    /\ UNCHANGED <<disco, pc, ruta, indefinido, csr, ultima>>

\* The first call of DFSRecursivo returned: the result is copied and handed
\* to the caller.
TerminarDFS ==
    /\ pc # "abortado"
    /\ enCurso.op = "DFS"
    /\ enCurso.pila = <<>>
    /\ Devuelve("DFS", enCurso.nodo, 0, enCurso.e)
    /\ enCurso' = SinRecorrido

NextPasos ==
    \/ \E r \in Rutas : cargarDatos(r)
    \/ \E n \in Consultas, p \in Profundidades : IniciarBFS(n, p)
    \/ PasoBFS
    \/ TerminarBFS
    \/ \E n \in Consultas : IniciarDFS(n)
    \/ PasoDFS
    \/ TerminarDFS
    \/ \E n \in Consultas : obtenerGradoSalida(n)
    \/ \E n \in Consultas : obtenerGradoEntrada(n)
    \/ \E n \in Consultas : getVecinos(n)
    \/ obtenerNodoMayorGrado
    \/ liberar

\* The files in the documented format: pairs of non-negative ids and nothing
\* else.  Every graph built without undefined behaviour is the graph of one
\* of them, the pairs the loader read.
ArchivosBienFormados ==
    {a \in Archivos : Len(a) % 2 = 0 /\ \A k \in DOMAIN a : EsEntero(a[k]) /\ a[k][1] >= 0}

\* The file systems whose data set, if there is one, is in that format.
DiscosPasos ==
    {d \in Discos : d["dataset"] \in ArchivosBienFormados \cup {NoExiste, ArchivoCiclo}}

InitPasos == Init /\ disco \in DiscosPasos

\* A call that has started runs on: the program has one thread and nothing
\* in BFS, DFS or DFSRecursivo waits.
SpecPasos ==
    /\ InitPasos
    /\ [][NextPasos]_vars
    /\ WF_vars(PasoBFS) /\ WF_vars(TerminarBFS)
    /\ WF_vars(PasoDFS) /\ WF_vars(TerminarDFS)

\* ------------------------------------------------------- the input, as read
\* The number of pairs the stream yields: the tokens before the first one
\* that is not an int, taken two by two.
NumPares(toks) ==
    LET malos == {j \in 1..Len(toks) : ~EsEntero(toks[j])}
        leidos == IF malos = {} THEN Len(toks)
                  ELSE (CHOOSE j \in malos : \A j2 \in malos : j <= j2) - 1
    IN  leidos \div 2

\* The pairs of the file at path r, in file order.
ParesDe(r) ==
    LET toks == disco[r]
    IN  [k \in 1..NumPares(toks) |->
            [origen |-> toks[2 * k - 1][1], destino |-> toks[2 * k][1]]]

\* The pairs of the file the arrays were built from.
Entrada == IF ruta \in Rutas THEN ParesDe(ruta) ELSE <<>>

\* The ids the pairs e mention.
IdsDe(e) == {e[k].origen : k \in DOMAIN e} \cup {e[k].destino : k \in DOMAIN e}

\* A built graph: cargarDatos returned true on a file in the documented
\* format, pairs of non-negative ids (what follows the first token that is
\* not an int is not read).
Construido == pc = "cargado" /\ \A x \in IdsDe(Entrada) : x >= 0

RECURSIVE DestinosDesde(_, _, _)
\* The destinations of the pairs k..Len(e) of e whose origin is i, in order.
DestinosDesde(e, i, k) ==
    IF k > Len(e) THEN <<>>
    ELSE IF e[k].origen = i THEN <<e[k].destino>> \o DestinosDesde(e, i, k + 1)
    ELSE DestinosDesde(e, i, k + 1)

\* The destinations of the input pairs whose origin is i, in file order.
Destinos(i) == DestinosDesde(Entrada, i, 1)

Nodos == 0..(numNodos - 1)

RECURSIVE Suma(_, _)
Suma(f, S) == IF S = {} THEN 0 ELSE LET x == CHOOSE y \in S : TRUE IN f[x] + Suma(f, S \ {x})

Rango(s) == {s[k] : k \in DOMAIN s}
SinRepetidos(s) == \A a, b \in DOMAIN s : a # b => s[a] # s[b]

\* ----------------------------------------------------------------- claims
\* C1: for every graph built from an edge list of non-negative pairs,
\* row_ptr[0] = 0, row_ptr is non-decreasing, row_ptr[numNodos] = numAristas
\* and the out-degrees of the nodes 0..numNodos-1 sum to numAristas.
C1_RowPtr ==
    Construido =>
        /\ DOMAIN row_ptr = 0..numNodos
        /\ row_ptr[0] = 0
        /\ \A i \in Nodos : row_ptr[i] <= row_ptr[i + 1]
        /\ row_ptr[numNodos] = numAristas
        /\ Suma([i \in Nodos |-> GradoSalida(i)], Nodos) = numAristas

\* A built graph of four edges over three nodes in which one node has two
\* out-edges and the others one each (the scenario of the specification).
C1_Witness ==
    /\ Construido
    /\ numNodos = 3
    /\ numAristas = 4
    /\ row_ptr = [i \in 0..3 |-> IF i = 0 THEN 0 ELSE i + 1]

\* C2: on a built graph getVecinos(i), for a valid i, returns the
\* destinations of the input pairs whose origin is i, in file order, with
\* duplicates and self-loops kept: the slice
\* column_indices[row_ptr[i] .. row_ptr[i+1]-1]; and cantidadVecinos is
\* obtenerGradoSalida(i).
C2_Vecinos ==
    (ultima.op = "getVecinos" /\ NodoValido(ultima.nodo) /\ Construido) =>
        LET i == ultima.nodo
        IN  /\ ultima.lista = Destinos(i)
            /\ ultima.ret = Len(ultima.lista)
            /\ ultima.ret = GradoSalida(i)
            /\ \A k \in 1..ultima.ret : ultima.lista[k] = column_indices[row_ptr[i] + k - 1]
            /\ row_ptr[i] + ultima.ret = row_ptr[i + 1]

\* getVecinos returned two different neighbours, the larger first as in the
\* file, for a node that is not the first of the graph.
C2_Witness ==
    /\ ultima.op = "getVecinos"
    /\ Construido
    /\ ultima.nodo = 1
    /\ ultima.ret = 2
    /\ ultima.lista[1] > ultima.lista[2]

\* C3, as claimed: on every graph cargarDatos builds without running into
\* undefined behaviour, negative ids included, every value of
\* column_indices is in 0..numNodos-1.
C3_Original ==
    (pc = "cargado" /\ ~indefinido) =>
        \A k \in DOMAIN column_indices : column_indices[k] >= 0 /\ column_indices[k] < numNodos

\* C3, amended: on every graph built from non-negative pairs (duplicates and
\* self-loops included) every value of column_indices is in 0..numNodos-1,
\* and column_indices has numAristas values.
C3_Amended ==
    Construido =>
        /\ DOMAIN column_indices = 0..(numAristas - 1)
        /\ \A k \in DOMAIN column_indices : column_indices[k] >= 0 /\ column_indices[k] < numNodos

\* A built graph with a self-loop on its largest node and a duplicate edge.
C3_Witness ==
    /\ Construido
    /\ numAristas = MaxPares
    /\ LET e == Entrada
       IN  /\ \E k \in DOMAIN e : e[k].origen = e[k].destino /\ e[k].origen = numNodos - 1
           /\ \E a, b \in DOMAIN e : a # b /\ e[a] = e[b]
\* ------------------------------------------------ distances, from the input
\* The nodes one edge of the input away from a node of S.
Sucesores(e, S) == {e[k].destino : k \in {j \in DOMAIN e : e[j].origen \in S}}

RECURSIVE Cerca(_, _, _)
\* The nodes at most k edges of the input away from inicio.
Cerca(e, inicio, k) ==
    IF k = 0 THEN {inicio}
    ELSE LET c == Cerca(e, inicio, k - 1) IN c \cup Sucesores(e, c)

\* The nodes a path of the input leads to from inicio.
Alcanzables(inicio) == Cerca(Entrada, inicio, numNodos)

\* The nodes whose shortest-path distance from inicio is at most p.
DentroDe(inicio, p) == IF p < 0 THEN {} ELSE Cerca(Entrada, inicio, p)

\* What C4 says BFS(inicio, p) holds: all that is reachable for p = -1, else
\* the nodes at distance at most p.
EsperadoBFS(inicio, p) == IF p = -1 THEN Alcanzables(inicio) ELSE DentroDe(inicio, p)

\* C4, as claimed: on a built graph, for every valid start and every
\* maxDepth, BFS returns each node at most once and exactly the nodes at
\* distance <= maxDepth from start (all reachable nodes for maxDepth = -1).
C4_Original ==
    (ultima.op = "BFS" /\ NodoValido(ultima.nodo) /\ Construido) =>
        /\ SinRepetidos(ultima.lista)
        /\ Rango(ultima.lista) = EsperadoBFS(ultima.nodo, ultima.prof)

\* C4, amended: the same for every maxDepth >= -1, with BFS(start, 0) =
\* [start]; for a maxDepth below -1 BFS returns [start].
C4_Amended ==
    (ultima.op = "BFS" /\ NodoValido(ultima.nodo) /\ Construido) =>
        /\ ultima.ret = Len(ultima.lista)
        /\ SinRepetidos(ultima.lista)
        /\ ultima.prof >= -1 => Rango(ultima.lista) = EsperadoBFS(ultima.nodo, ultima.prof)
        /\ ultima.prof = 0 => ultima.lista = <<ultima.nodo>>
        /\ ultima.prof < -1 => ultima.lista = <<ultima.nodo>>

\* BFS with maxDepth = 1 on a built graph in which a node is two edges away
\* from start: the nodes at distance 1 are returned, that node is not.
C4_Witness ==
    /\ ultima.op = "BFS"
    /\ ultima.prof = 1
    /\ Construido
    /\ NodoValido(ultima.nodo)
    /\ Len(ultima.lista) >= 2
    /\ Alcanzables(ultima.nodo) \ Rango(ultima.lista) # {}

\* C5: on a built graph, for a valid start, DFS(start) and BFS(start, -1)
\* return the same set of nodes and results of the same length.
C5_MismoConjunto ==
    /\ (ultima.op = "DFS" /\ NodoValido(ultima.nodo) /\ Construido) =>
           LET b == RecorridoBFS(ultima.nodo, -1).resultado
           IN  Rango(ultima.lista) = Rango(b) /\ ultima.ret = Len(b)
    /\ (ultima.op = "BFS" /\ ultima.prof = -1 /\ NodoValido(ultima.nodo) /\ Construido) =>
           LET d == RecorridoDFS(ultima.nodo).resultado
           IN  Rango(ultima.lista) = Rango(d) /\ ultima.ret = Len(d)

\* DFS returned four nodes in an order BFS(start, -1) does not return.
C5_Witness ==
    /\ ultima.op = "DFS"
    /\ Construido
    /\ ultima.ret = 4
    /\ ultima.lista # RecorridoBFS(ultima.nodo, -1).resultado

RECURSIVE PreordenPila(_, _, _)
\* The preorder walk with an explicit stack over the input's adjacency: the
\* top is visited unless it already was, and its destinations, in file
\* order, go on top of the stack.
PreordenPila(pila, vistos, res) ==
    IF pila = <<>> THEN res
    ELSE LET u == Head(pila)
         IN  IF u \in vistos THEN PreordenPila(Tail(pila), vistos, res)
             ELSE PreordenPila(Destinos(u) \o Tail(pila), vistos \cup {u}, Append(res, u))

Preorden(inicio) == PreordenPila(<<inicio>>, {}, <<>>)

\* There is an edge a -> b in the input.
HayArista(a, b) == \E k \in DOMAIN Entrada : Entrada[k].origen = a /\ Entrada[k].destino = b

\* C6: on a built graph, for a valid start, DFS(start) is the preorder:
\* start first, every node once, the out-neighbours entered in storage
\* order, each subtree explored before the next neighbour is examined (a
\* node between a and c in the result, where a -> c is an edge, was entered
\* from a or from a node after a); DFS(0) = [0,1,2] on the scenario of the
\* specification.
C6_Preorden ==
    (ultima.op = "DFS" /\ NodoValido(ultima.nodo) /\ Construido) =>
        LET r == ultima.lista
        IN  /\ r[1] = ultima.nodo
            /\ SinRepetidos(r)
            /\ r = Preorden(ultima.nodo)
            /\ \A a, b, c \in DOMAIN r :
                  (a < b /\ b < c /\ HayArista(r[a], r[c])) =>
                      \E d \in a..(b - 1) : HayArista(r[d], r[b])
            /\ (ruta = "ejemplo" /\ ultima.nodo = 0) => r = <<0, 1, 2>>

\* DFS(0) on the four-node data set: 3, below 1, comes before 2.
C6_Witness ==
    /\ ultima.op = "DFS"
    /\ Construido
    /\ ultima.lista = <<0, 1, 3, 2>>
\* The out-degree of node i in the input: the pairs whose origin is i.
GradoDeEntrada(i) == Len(Destinos(i))

\* C7, as claimed: on every built graph, the graph without edges included,
\* obtenerNodoMayorGrado returns (n, d) where d is the largest out-degree of
\* a node and n is the smallest node id whose out-degree is d.
C7_Original ==
    (ultima.op = "obtenerNodoMayorGrado" /\ Construido) =>
        /\ NodoValido(ultima.nodo)
        /\ GradoDeEntrada(ultima.nodo) = ultima.ret
        /\ \A j \in Nodos : GradoDeEntrada(j) <= ultima.ret
        /\ \A j \in Nodos : GradoDeEntrada(j) = ultima.ret => ultima.nodo <= j

\* C7, amended: that holds on every built graph with at least one edge; on
\* the built graph of a file without pairs, which has no node,
\* obtenerNodoMayorGrado returns (-1, 0).
C7_Amended ==
    (ultima.op = "obtenerNodoMayorGrado" /\ Construido) =>
        IF numAristas > 0
        THEN /\ NodoValido(ultima.nodo)
             /\ GradoDeEntrada(ultima.nodo) = ultima.ret
             /\ \A j \in Nodos : GradoDeEntrada(j) <= ultima.ret
             /\ \A j \in Nodos : GradoDeEntrada(j) = ultima.ret => ultima.nodo <= j
        ELSE numNodos = 0 /\ ultima.nodo = -1 /\ ultima.ret = 0

\* obtenerNodoMayorGrado on a built graph in which two nodes share the
\* largest out-degree and the smaller of them is not node 0.
C7_Witness ==
    /\ ultima.op = "obtenerNodoMayorGrado"
    /\ Construido
    /\ ultima.nodo = 1
    /\ \E j \in Nodos : j > ultima.nodo /\ GradoDeEntrada(j) = ultima.ret

\* C8: on every graph, loaded or not (the arrays are then null), a query
\* with a node id outside 0..numNodos-1 returns its neutral result and does
\* not fail: obtenerGradoSalida and
\* obtenerGradoEntrada return 0, getVecinos reports 0 neighbours, BFS and
\* DFS report 0 visited nodes and hand out no array.
C8_Neutro ==
    (/\ ultima.op \in {"BFS", "DFS", "obtenerGradoSalida", "obtenerGradoEntrada", "getVecinos"}
     /\ ~NodoValido(ultima.nodo)) =>
        /\ pc # "abortado"
        /\ ultima.ok
        /\ ultima.ret = 0
        /\ ultima.lista = <<>>

\* obtenerGradoEntrada(-1) on a graph, loaded without undefined behaviour,
\* whose column_indices holds -1.
C8_Witness ==
    /\ ultima.op = "obtenerGradoEntrada"
    /\ pc = "cargado"
    /\ ~indefinido
    /\ ultima.nodo = -1
    /\ \E k \in DOMAIN column_indices : column_indices[k] = -1

\* C9: after a load that returned true (without undefined behaviour),
\* numAristas is the number of pairs read, the pairs before the end of the
\* stream or the first token that is not an int; numNodos is the largest id
\* among them, origins and destinations, plus 1; and numNodos >= 0.
C9_Conteo ==
    (pc = "cargado" /\ ~indefinido) =>
        LET e == Entrada
        IN  /\ numAristas = Len(e)
            /\ numNodos >= 0
            /\ e # <<>> => /\ (numNodos - 1) \in IdsDe(e)
                           /\ \A x \in IdsDe(e) : x <= numNodos - 1

\* A load whose file has a token that is not an int before its last pair,
\* and whose largest id occurs only as a destination.
C9_Witness ==
    /\ pc = "cargado"
    /\ ~indefinido
    /\ ruta = "dataset"
    /\ numAristas = 1
    /\ Len(disco[ruta]) = 2 * MaxPares
    /\ EsEntero(disco[ruta][Len(disco[ruta])])
    /\ Entrada[1].destino = numNodos - 1
    /\ Entrada[1].origen < Entrada[1].destino

\* The number of input pairs whose destination is v.
Llegadas(e, v) == Cardinality({k \in DOMAIN e : e[k].destino = v})

\* C11: on a built graph obtenerGradoEntrada(v), for a valid v, is the number
\* of input pairs whose destination is v, duplicates and self-loops counted;
\* the in-degrees of the nodes 0..numNodos-1 sum to numAristas; and on the
\* scenario of the specification the in-degrees of 0, 1, 2 are 1, 1, 2.
C11_GradoEntrada ==
    (ultima.op = "obtenerGradoEntrada" /\ NodoValido(ultima.nodo) /\ Construido) =>
        LET e == Entrada
        IN  /\ ultima.ret = Llegadas(e, ultima.nodo)
            /\ Suma([v \in Nodos |-> GradoEntrada(v)], Nodos) = numAristas
            /\ Suma([v \in Nodos |-> Llegadas(e, v)], Nodos) = numAristas
            /\ ruta = "ejemplo" => ultima.ret = <<1, 1, 2>>[ultima.nodo + 1]

\* obtenerGradoEntrada returned 2 for a node whose two incoming edges are
\* the same self-loop, read twice, and are stored first in column_indices.
C11_Witness ==
    /\ ultima.op = "obtenerGradoEntrada"
    /\ Construido
    /\ ultima.ret = 2
    /\ column_indices[0] = ultima.nodo
    /\ LET e == Entrada
       IN  \E a, b \in DOMAIN e :
              a # b /\ e[a] = e[b] /\ e[a].origen = ultima.nodo /\ e[a].destino = ultima.nodo

\* The place of pair k of e in the stable order by origin.
Puesto(e, k) ==
    Cardinality({j \in DOMAIN e : e[j].origen < e[k].origen})
    + Cardinality({j \in 1..(k - 1) : e[j].origen = e[k].origen})

\* The five fields as a function of the pairs e alone: the largest id plus
\* one, the number of pairs, for each i the pairs whose origin is below i,
\* the destinations in the stable order by origin, and a 1 for each pair.
EstructuraDe(e) ==
    LET ids == IdsDe(e)
        n == IF e = <<>> THEN 0 ELSE (CHOOSE x \in ids : \A y \in ids : y <= x) + 1
    IN  <<n, Len(e),
          [i \in 0..n |-> Cardinality({k \in DOMAIN e : e[k].origen < i})],
          [j \in 0..(Len(e) - 1) |-> e[CHOOSE k \in DOMAIN e : Puesto(e, k) = j].destino],
          [j \in 0..(Len(e) - 1) |-> 1]>>

\* C12: after a load that returned true (without undefined behaviour), on a
\* fresh graph or not, numNodos, numAristas, row_ptr, column_indices and
\* values are a function of the sequence of pairs read from the file, so two
\* loads of the same edge list build identical structures.
C12_Determinista ==
    (pc = "cargado" /\ ~indefinido) => csr = EstructuraDe(Entrada)

\* A load just returned true on a file whose two pairs are not in the order
\* of their origins, so that the arrays hold them in another order.
C12_Witness ==
    /\ ultima.op = "cargarDatos"
    /\ pc = "cargado"
    /\ ~indefinido
    /\ numAristas = 2
    /\ Entrada[1].origen > Entrada[2].origen
    /\ Entrada[1].destino # Entrada[2].destino
    /\ column_indices[0] = Entrada[2].destino

\* C10, as claimed: once a graph is built, no public operation changes
\* numNodos, numAristas, row_ptr, column_indices or values.
C10_Original ==
    [][(pc = "cargado" /\ ~indefinido /\ pc' = "cargado" /\ ~indefinido') => csr' = csr]_vars

\* The queries alone: BFS, DFS, obtenerGradoSalida, obtenerGradoEntrada,
\* getVecinos and obtenerNodoMayorGrado leave the five unchanged.
C10_Consultas ==
    [][(ultima'.op # "cargarDatos") => csr' = csr]_vars

\* --------------------------------------------------- layers, from the input
\* The shortest-path distance from inicio to v in edges of the input, or -1
\* when no path leads to v.
Distancia(e, inicio, v) ==
    LET ks == {k \in 0..numNodos : v \in Cerca(e, inicio, k)}
    IN  IF ks = {} THEN -1 ELSE CHOOSE k \in ks : \A k2 \in ks : k <= k2

RECURSIVE Hijos(_)
\* The destinations of the nodes of capa, parent by parent, each parent's in
\* file order.
Hijos(capa) == IF capa = <<>> THEN <<>> ELSE Destinos(Head(capa)) \o Hijos(Tail(capa))

RECURSIVE Nuevos(_, _)
\* s without the nodes of vistos and without second occurrences.
Nuevos(s, vistos) ==
    IF s = <<>> THEN <<>>
    ELSE IF Head(s) \in vistos THEN Nuevos(Tail(s), vistos)
    ELSE <<Head(s)>> \o Nuevos(Tail(s), vistos \cup {Head(s)})

\* The deepest layer a traversal with depth limit p reaches.
Tope(p) == IF p = -1 THEN numNodos ELSE IF p < -1 THEN 0 ELSE p

RECURSIVE PorCapas(_, _, _, _)
\* The layer capa, at distance d, followed by the layers after it up to
\* distance tope.
PorCapas(capa, vistos, d, tope) ==
    IF capa = <<>> THEN <<>>
    ELSE IF d >= tope THEN capa
    ELSE LET sig == Nuevos(Hijos(capa), vistos)
         IN  capa \o PorCapas(sig, vistos \cup Rango(sig), d + 1, tope)

Acotado ==
    /\ enCurso.op = "BFS" =>
          LET e == enCurso.e
          IN  /\ Len(e.cola) <= numNodos
              /\ Len(e.resultado) <= numNodos
              /\ e.frente <= Len(e.cola)
              /\ SinRepetidos(e.cola)
              /\ SinRepetidos(e.resultado)
              /\ Rango(e.cola) = e.marcados
              /\ Rango(e.resultado) = e.marcados
    /\ enCurso.op = "DFS" =>
          LET e == enCurso.e
              entrados == [k \in DOMAIN enCurso.pila |-> enCurso.pila[k].nodoActual]
          IN  /\ Len(e.resultado) <= numNodos
              /\ Len(enCurso.pila) <= numNodos
              /\ SinRepetidos(e.resultado)
              /\ SinRepetidos(entrados)
              /\ Rango(e.resultado) = e.visitados
              /\ Rango(entrados) \subseteq e.visitados

\* A traversal is running on a built graph.
EnMarcha == enCurso.op # "ninguna" /\ Construido

\* The running traversal has returned its result to the caller.
Devuelto == enCurso = SinRecorrido /\ ultima.op \in {"BFS", "DFS"} /\ ultima.ok

\* C14: every BFS and DFS call on a built graph terminates: while it runs,
\* each node is marked before it is enqueued or entered and is enqueued or
\* entered at most once, the queue, the result and the stack of calls never
\* hold more than numNodos nodes, and the call returns (the frontier
\* empties, the first DFSRecursivo returns).
C14_Termina ==
    /\ [](Construido => Acotado)
    /\ EnMarcha ~> Devuelto

\* A BFS on a built graph with a self-loop and a cycle through its start
\* has dequeued all its nodes: the frontier is empty.
C14_Witness ==
    /\ enCurso.op = "BFS"
    /\ Construido
    /\ enCurso.prof = -1
    /\ enCurso.e.frente = Len(enCurso.e.cola)
    /\ Len(enCurso.e.cola) = 4
    /\ HayArista(2, 2)
    /\ HayArista(3, 0)

\* What the step-by-step traversals return is what BFS and DFS return.
PasosComoRecorrido ==
    (ultima.ok /\ NodoValido(ultima.nodo)) =>
        /\ ultima.op = "BFS" => ultima.lista = RecorridoBFS(ultima.nodo, ultima.prof).resultado
        /\ ultima.op = "DFS" => ultima.lista = RecorridoDFS(ultima.nodo).resultado
====
